---- MODULE Spec2Model ----
(***************************************************************************)
(* A model of datamine.py: the TSCN document parser (TSCN.parse_file), the *)
(* path query of a resource (TSCNResource.query), the selector compiler    *)
(* (Selector.parse) and the selection of resources (TSCN.select).          *)
(*                                                                         *)
(* Python strings are sequences of one-character strings, so that          *)
(* indexing, splitting and regular-expression matching are computed on     *)
(* characters.  Python values are records tagged by the field t.           *)
(***************************************************************************)
EXTENDS Integers, Sequences, FiniteSets, TLC

VARIABLES
    pc,        \* "parse" while parse_file loops, "done" once the document is built, "error" once an exception left it
    lines,     \* the list re.findall returned for the file (line 110)
    i,         \* how many elements of lines the for loop has taken
    heap,      \* the TSCNResource objects created so far; an object's identity is its index
    tscn,      \* the attributes of the TSCN object (its instance dictionary)
    rsc,       \* the local rsc of parse_file: 0 for None, else the index of the open resource
    err,       \* the type of the exception that left parse_file, or "none"
    call,      \* the last public call made on the built document and its arguments
    selectors, \* the local selectors of select after line 147, None before any select
    ret        \* what that call returned or raised

vars == <<pc, lines, i, heap, tscn, rsc, err, call, selectors, ret>>

----------------------------------------------------------------------------
(* Bounds of the model *)

\* the longest list of recognised lines a modelled file holds
MaxLines == 3

\* the most clauses a modelled selector expression holds
MaxClauses == 2

\* the longest list of recognised lines of a file that select and query are called on
MaxSelLines == 2

----------------------------------------------------------------------------
(* Characters and names *)

QUOTE == "\""
NEWLINE == "\n"
BACKSLASH == "\\"

S_node == <<"n", "o", "d", "e">>
S_ext_resource == <<"e", "x", "t", "_", "r", "e", "s", "o", "u", "r", "c", "e">>
S_sub_resource == <<"s", "u", "b", "_", "r", "e", "s", "o", "u", "r", "c", "e">>
S_connection == <<"c", "o", "n", "n", "e", "c", "t", "i", "o", "n">>
S_gd_scene == <<"g", "d", "_", "s", "c", "e", "n", "e">>
S_resources == <<"r", "e", "s", "o", "u", "r", "c", "e", "s">>
S_scene == <<"s", "c", "e", "n", "e">>
S_entries == <<"e", "n", "t", "r", "i", "e", "s">>
S_resource_type == <<"r", "e", "s", "o", "u", "r", "c", "e", "_", "t", "y", "p", "e">>
S_query == <<"q", "u", "e", "r", "y">>
S_name == <<"n", "a", "m", "e">>
S_self == <<"s", "e", "l", "f">>
S_foo == <<"f", "o", "o">>
S_parse_file == <<"p", "a", "r", "s", "e", "_", "f", "i", "l", "e">>
S_select == <<"s", "e", "l", "e", "c", "t">>
S_init == <<"_", "_", "i", "n", "i", "t", "_", "_">>
S_str == <<"_", "_", "s", "t", "r", "_", "_">>
S_getitem == <<"_", "_", "g", "e", "t", "i", "t", "e", "m", "_", "_">>

\* the list types of TSCN.__init__
types == <<S_node, S_ext_resource, S_sub_resource, S_connection>>

Range(s) == {s[k] : k \in DOMAIN s}

----------------------------------------------------------------------------
(* Python values *)

Str(s) == [t |-> "str", s |-> s]
PyInt(n) == [t |-> "int", n |-> n]
Bool(b) == [t |-> "bool", b |-> b]
Dict(d) == [t |-> "dict", d |-> d]
List(l) == [t |-> "list", l |-> l]
Ref(id) == [t |-> "ref", id |-> id]
Method(n) == [t |-> "method", n |-> n]
None == [t |-> "none"]
Raise(e) == [t |-> "raise", e |-> e]

IsRaise(v) == v.t = "raise"

\* a dictionary is a function; d[k] = v adds or overwrites k
EmptyDict == [k \in {} |-> None]
Put(d, k, v) == [x \in (DOMAIN d) \cup {k} |-> IF x = k THEN v ELSE d[x]]

----------------------------------------------------------------------------
(* TSCNResource.__init__ *)

\* v.replace('"', '')
RemoveQuotes(v) == SelectSeq(v, LAMBDA c : c # QUOTE)

\* {k: v.replace('"', '') for (k, v) in pairs}
RECURSIVE HeaderAttrs(_)
HeaderAttrs(pairs) ==
    IF pairs = <<>> THEN EmptyDict
    ELSE LET n == Len(pairs)
             p == pairs[n]
             before == HeaderAttrs(SubSeq(pairs, 1, n - 1))
         IN Put(before, p[1], RemoveQuotes(p[2]))

\* TSCNResource(resource_type, **attr): the instance dictionary of the new object
NewResource(resource_type, attr) ==
    IF S_resource_type \in DOMAIN attr \/ S_self \in DOMAIN attr
    THEN Raise("TypeError")   \* multiple values for a positional parameter
    ELSE [t |-> "obj",
          d |-> [x \in {S_resource_type, S_entries} \cup DOMAIN attr |->
                    IF x \in DOMAIN attr THEN Str(attr[x])
                    ELSE IF x = S_resource_type THEN Str(resource_type)
                    ELSE Dict(EmptyDict)]]

----------------------------------------------------------------------------
(* TSCN.__init__ and TSCN.parse_file *)

\* the methods a TSCN object inherits from its class
TSCNClassAttrs == {S_parse_file, S_select, S_init}

\* self.resources = [] and setattr(self, type, []) for each of types
NewTSCN == [x \in {S_resources} \cup Range(types) |-> List(<<>>)]

\* getattr(self, name) on the TSCN object
GetAttrTSCN(t, name) ==
    IF name \in DOMAIN t THEN t[name]
    ELSE IF name \in TSCNClassAttrs THEN Method(name)
    ELSE Raise("AttributeError")

\* RegisterResource with the scene branch leaving the loop body early, so that
\* the scene descriptor misses the flat list
RegisterResourceSceneSkipped(t, resource_type, id) ==
    LET got == GetAttrTSCN(t, resource_type)
    IN IF resource_type = S_gd_scene
       THEN [t |-> "tscn", d |-> Put(t, S_scene, Ref(id))]
       ELSE IF IsRaise(got) THEN got
       ELSE IF got.t # "list" THEN Raise("TypeError")
       ELSE [t |-> "tscn",
             d |-> Put(Put(t, resource_type, List(Append(got.l, id))),
                       S_resources, List(Append(t[S_resources].l, id)))]

\* lines 124-130: the scene reference or the per-kind list, then the flat list
RegisterResource(t, resource_type, id) ==
    LET got == GetAttrTSCN(t, resource_type)
        t1 == IF resource_type = S_gd_scene
              THEN [t |-> "tscn", d |-> Put(t, S_scene, Ref(id))]
              ELSE IF IsRaise(got) THEN got
              ELSE IF got.t # "list" THEN Raise("TypeError")
              ELSE [t |-> "tscn", d |-> Put(t, resource_type, List(Append(got.l, id)))]
    IN IF IsRaise(t1) THEN t1
       ELSE [t |-> "tscn",
             d |-> Put(t1.d, S_resources, List(Append(t1.d[S_resources].l, id)))]

\* value.replace("\n", "\\n")
RECURSIVE EscapeNewlines(_)
EscapeNewlines(s) ==
    IF s = <<>> THEN <<>>
    ELSE (IF Head(s) = NEWLINE THEN <<BACKSLASH, "n">> ELSE <<Head(s)>>)
         \o EscapeNewlines(Tail(s))

\* re.sub(r"^\"(.*)\"$", r"\1", value): the ends e at which the closing quote
\* can match, "$" standing at the end or before one final newline
UnquoteEnds(s) ==
    {e \in 2..Len(s) :
        /\ s[1] = QUOTE
        /\ s[e] = QUOTE
        /\ \A k \in 2..(e - 1) : s[k] # NEWLINE
        /\ \/ e = Len(s)
           \/ e = Len(s) - 1 /\ s[Len(s)] = NEWLINE}

Unquote(s) ==
    IF UnquoteEnds(s) = {} THEN s
    ELSE LET e == CHOOSE x \in UnquoteEnds(s) : \A y \in UnquoteEnds(s) : y <= x
         IN SubSeq(s, 2, e - 1) \o SubSeq(s, e + 1, Len(s))

\* if value.startswith("+"): value = f'="{value}"'
GuardFormula(s) ==
    IF Len(s) >= 1 /\ s[1] = "+" THEN <<"=", QUOTE>> \o s \o <<QUOTE>> ELSE s

\* EntryValue with the formula guard applied before the quotes are stripped
EntryValueGuardFirst(value) == Unquote(GuardFormula(EscapeNewlines(value)))

\* lines 134-141: the text stored for a body line's value
EntryValue(value) == GuardFormula(Unquote(EscapeNewlines(value)))

\* line 143: rsc.entries[key] = value, on the heap
SetEntry(h, r, key, value) ==
    IF r = 0 THEN Raise("AttributeError")   \* None has no attribute entries
    ELSE LET e == h[r][S_entries]
         IN IF e.t # "dict" THEN Raise("TypeError")   \* no item assignment
            ELSE [t |-> "heap",
                  h |-> [h EXCEPT ![r] = Put(@, S_entries, Dict(Put(e.d, key, Str(value))))]]

\* the state parse_file works on
ParseState(p, h, t, r, e) == [pc |-> p, heap |-> h, tscn |-> t, rsc |-> r, err |-> e]

\* lines 115-131: one header line
HeaderStep(st, line) ==
    LET obj == NewResource(line.resource_type, HeaderAttrs(line.pairs))
        id == Len(st.heap) + 1
        h1 == Append(st.heap, obj.d)
        t1 == RegisterResource(st.tscn, line.resource_type, id)
    IN IF IsRaise(obj) THEN ParseState("error", st.heap, st.tscn, st.rsc, obj.e)
       ELSE IF IsRaise(t1) THEN ParseState("error", h1, st.tscn, id, t1.e)
       ELSE ParseState("parse", h1, t1.d, id, "none")

\* lines 133-143: one body line
BodyStep(st, line) ==
    LET h1 == SetEntry(st.heap, st.rsc, line.key, EntryValue(line.value))
    IN IF IsRaise(h1) THEN ParseState("error", st.heap, st.tscn, st.rsc, h1.e)
       ELSE ParseState("parse", h1.h, st.tscn, st.rsc, "none")

\* line 115: a tuple of findall is a header line when its first group is not empty
IsHeader(line) == Len(line.resource_type) > 0

\* lines 107-143 from the first line to the end of the loop or an exception
RECURSIVE ParseFrom(_, _)
ParseFrom(st, ls) ==
    IF st.pc = "error" THEN st
    ELSE IF ls = <<>> THEN [st EXCEPT !.pc = "done"]
    ELSE ParseFrom(IF IsHeader(Head(ls)) THEN HeaderStep(st, Head(ls))
                   ELSE BodyStep(st, Head(ls)), Tail(ls))

ParseFile(ls) == ParseFrom(ParseState("parse", <<>>, NewTSCN, 0, "none"), ls)

----------------------------------------------------------------------------
(* TSCNResource.query *)

\* the methods a TSCNResource object inherits from its class
ResourceClassAttrs == {S_query, S_init, S_str, S_getitem}

Digits == <<"0", "1", "2", "3", "4", "5", "6", "7", "8", "9">>

IsDigit(c) == c \in Range(Digits)

DigitValue(c) == (CHOOSE k \in DOMAIN Digits : Digits[k] = c) - 1

\* the value of a run of decimal digits
RECURSIVE Decimal(_)
Decimal(s) ==
    IF s = <<>> THEN 0
    ELSE 10 * Decimal(SubSeq(s, 1, Len(s) - 1)) + DigitValue(s[Len(s)])

\* path.split("/")
RECURSIVE Split(_)
Split(s) ==
    IF \A k \in DOMAIN s : s[k] # "/" THEN <<s>>
    ELSE LET k == CHOOSE x \in DOMAIN s : s[x] = "/" /\ \A y \in 1..(x - 1) : s[y] # "/"
         IN <<SubSeq(s, 1, k - 1)>> \o Split(SubSeq(s, k + 1, Len(s)))

\* x.isnumeric()
IsNumeric(s) == s # <<>> /\ \A k \in DOMAIN s : IsDigit(s[k])

\* line 40: x if not x.isnumeric() else int(x)
Segment(s) == IF IsNumeric(s) THEN PyInt(Decimal(s)) ELSE Str(s)

\* getattr(self, name) on a TSCNResource object
GetAttrResource(obj, name) ==
    IF name \in DOMAIN obj THEN obj[name]
    ELSE IF name \in ResourceClassAttrs THEN Method(name)
    ELSE Raise("AttributeError")

\* hasattr(self, name); a name that is no string raises
HasAttr(obj, seg) ==
    IF seg.t # "str" THEN Raise("TypeError")
    ELSE Bool(seg.s \in DOMAIN obj \/ seg.s \in ResourceClassAttrs)

\* operator.getitem(x, k); a TSCNResource answers with getattr (lines 63-64)
GetItem(h, x, k) ==
    CASE x.t = "ref" ->
            IF k.t # "str" THEN Raise("TypeError") ELSE GetAttrResource(h[x.id], k.s)
      [] x.t = "dict" ->
            IF k.t = "str" /\ k.s \in DOMAIN x.d THEN x.d[k.s] ELSE Raise("KeyError")
      [] x.t = "str" ->
            IF k.t # "int" THEN Raise("TypeError")
            ELSE IF k.n < Len(x.s) THEN Str(<<x.s[k.n + 1]>>)
            ELSE Raise("IndexError")
      [] OTHER -> Raise("TypeError")   \* not subscriptable

\* functools.reduce(getitem, path, start)
RECURSIVE Reduce(_, _, _)
Reduce(h, path, start) ==
    IF path = <<>> THEN start
    ELSE LET x == GetItem(h, start, Head(path))
         IN IF IsRaise(x) THEN x ELSE Reduce(h, Tail(path), x)

\* b in a, for a string a
IsSubstring(b, a) ==
    \E k \in 0..(Len(a) - Len(b)) : SubSeq(a, k + 1, k + Len(b)) = b

\* path[0] in self.entries
InEntries(obj, seg) ==
    LET e == obj[S_entries]
    IN IF e.t = "dict" THEN Bool(seg.t = "str" /\ seg.s \in DOMAIN e.d)
       ELSE IF seg.t # "str" THEN Raise("TypeError")
       ELSE Bool(IsSubstring(seg.s, e.s))

\* lines 33-47; path is a Python value, a str or a list of str or anything else
query(h, id, path, default) ==
    LET split == IF path.t = "str" THEN List(Split(path.s)) ELSE path
    IN IF split.t # "list" \/ Len(split.l) = 0 THEN default
       ELSE LET segs == [k \in DOMAIN split.l |-> Segment(split.l[k])]
                has == HasAttr(h[id], segs[1])
                ins == InEntries(h[id], segs[1])
            IN IF IsRaise(has) THEN has
               ELSE IF has.b THEN Reduce(h, segs, Ref(id))
               ELSE IF IsRaise(ins) THEN ins
               ELSE IF ins.b THEN Reduce(h, segs, h[id][S_entries])
               ELSE default

----------------------------------------------------------------------------
(* Selector.parse *)

IsSpace(c) == c \in {" ", NEWLINE, "\t"}

IsOpChar(c) == c \in {"!", "<", ">", "="}

Max(S) == CHOOSE x \in S : \A y \in S : y <= x

\* line 70: the type pattern can end after n characters, before a bracket or
\* at the end; the dot matches no newline and the end stands at the end of the
\* string or before one final newline
IsTypeEnd(s, n) ==
    /\ \A k \in 1..n : s[k] # NEWLINE
    /\ \/ n = Len(s)
       \/ s[n + 1] = "["
       \/ n = Len(s) - 1 /\ s[Len(s)] = NEWLINE

TypeMatches(s) == \E n \in 0..Len(s) : IsTypeEnd(s, n)

\* the quantifier is lazy: the shortest match
TypeLength(s) ==
    CHOOSE n \in 0..Len(s) : IsTypeEnd(s, n) /\ \A m \in 0..(n - 1) : ~IsTypeEnd(s, m)

(***************************************************************************)
(* Line 76, the pattern of one clause: an opening bracket, a run of        *)
(* characters that are neither operator characters nor white space, an     *)
(* optional white space, a run of operator characters, an optional white   *)
(* space, any characters but a newline, a closing bracket.  Each           *)
(* quantifier is greedy: it takes the most that lets the rest match.       *)
(* XxxOk(s, q) says that the pattern from that item on matches at q.       *)
(***************************************************************************)

\* the value group can end at e, a closing bracket following
IsValueEnd(s, q, e) ==
    /\ \A k \in q..e : s[k] # NEWLINE
    /\ s[e + 1] = "]"

ValueOk(s, q) == \E e \in (q - 1)..(Len(s) - 1) : IsValueEnd(s, q, e)

ValueEnd(s, q) ==
    CHOOSE e \in (q - 1)..(Len(s) - 1) :
        IsValueEnd(s, q, e) /\ \A f \in (e + 1)..(Len(s) - 1) : ~IsValueEnd(s, q, f)

\* the second optional white space: where the value starts
TakesSpaceValue(s, q) == q <= Len(s) /\ IsSpace(s[q]) /\ ValueOk(s, q + 1)

SpaceValueOk(s, q) == TakesSpaceValue(s, q) \/ ValueOk(s, q)

ValueStart(s, q) == IF TakesSpaceValue(s, q) THEN q + 1 ELSE q

\* the operator group can end at e
IsOpEnd(s, q, e) ==
    /\ \A k \in q..e : IsOpChar(s[k])
    /\ SpaceValueOk(s, e + 1)

OpOk(s, q) == \E e \in q..Len(s) : IsOpEnd(s, q, e)

OpEnd(s, q) ==
    CHOOSE e \in q..Len(s) :
        IsOpEnd(s, q, e) /\ \A f \in (e + 1)..Len(s) : ~IsOpEnd(s, q, f)

\* the first optional white space: where the operator starts
TakesSpaceOp(s, q) == q <= Len(s) /\ IsSpace(s[q]) /\ OpOk(s, q + 1)

SpaceOpOk(s, q) == TakesSpaceOp(s, q) \/ OpOk(s, q)

OpStart(s, q) == IF TakesSpaceOp(s, q) THEN q + 1 ELSE q

\* the attribute group after the bracket at p can end at e
IsAttrEnd(s, p, e) ==
    /\ \A k \in (p + 1)..e : ~IsOpChar(s[k]) /\ ~IsSpace(s[k])
    /\ SpaceOpOk(s, e + 1)

\* the pattern matches with its opening bracket at p
ClauseOk(s, p) == s[p] = "[" /\ \E e \in (p + 1)..Len(s) : IsAttrEnd(s, p, e)

AttrEnd(s, p) ==
    CHOOSE e \in (p + 1)..Len(s) :
        IsAttrEnd(s, p, e) /\ \A f \in (e + 1)..Len(s) : ~IsAttrEnd(s, p, f)

\* the groups of the match at p and the position of its closing bracket
MatchClause(s, p) ==
    LET opStart == OpStart(s, AttrEnd(s, p) + 1)
        valueStart == ValueStart(s, OpEnd(s, opStart) + 1)
    IN [attr |-> SubSeq(s, p + 1, AttrEnd(s, p)),
        op |-> SubSeq(s, opStart, OpEnd(s, opStart)),
        rhs |-> SubSeq(s, valueStart, ValueEnd(s, valueStart)),
        end |-> ValueEnd(s, valueStart) + 1]

\* re.findall: the matches from left to right, none overlapping; F[from] are
\* the matches that start at from or later
FindAll(s) ==
    LET F[from \in 1..(Len(s) + 1)] ==
            IF \A p \in from..Len(s) : ~ClauseOk(s, p) THEN <<>>
            ELSE LET first == CHOOSE p \in from..Len(s) :
                                  ClauseOk(s, p) /\ \A r \in from..(p - 1) : ~ClauseOk(s, r)
                 IN <<MatchClause(s, first)>> \o F[MatchClause(s, first).end + 1]
    IN F[1]

\* lines 78-81: attrs[attr] = relation for each match, on a dictionary that
\* keeps its insertion order: a key stands where it was first inserted and
\* holds the relation inserted last
ClauseDict(queries) ==
    LET firsts == SelectSeq([k \in DOMAIN queries |-> k],
                            LAMBDA k : \A j \in 1..(k - 1) : queries[j].attr # queries[k].attr)
        last(k) == CHOOSE j \in DOMAIN queries :
                       /\ queries[j].attr = queries[k].attr
                       /\ \A m \in (j + 1)..Len(queries) : queries[m].attr # queries[k].attr
    IN [n \in DOMAIN firsts |->
            <<queries[firsts[n]].attr, queries[last(firsts[n])].op,
              queries[last(firsts[n])].rhs>>]

\* lines 68-85: { type: attrs }, attrs the clauses <<path, op, rhs>> in order
SelectorParse(string) ==
    IF ~TypeMatches(string) THEN Raise("ValueError")
    ELSE CHOOSE sel \in {[t |-> "selector",
                          type |-> SubSeq(string, 1, TypeLength(string)),
                          attrs |-> ClauseDict(queries)] :
                             queries \in {FindAll(string)}} : TRUE

----------------------------------------------------------------------------
(* TSCN.select *)

\* str.strip() as int() applies it
RECURSIVE Strip(_)
Strip(s) ==
    IF s = <<>> THEN s
    ELSE IF IsSpace(s[1]) THEN Strip(Tail(s))
    ELSE IF IsSpace(s[Len(s)]) THEN Strip(SubSeq(s, 1, Len(s) - 1))
    ELSE s

\* the digits of an int() literal: digits, single underscores between them
IsDigitRun(s) ==
    /\ s # <<>>
    /\ IsDigit(s[1])
    /\ IsDigit(s[Len(s)])
    /\ \A k \in DOMAIN s : IsDigit(s[k]) \/ s[k] = "_"
    /\ \A k \in 1..(Len(s) - 1) : ~(s[k] = "_" /\ s[k + 1] = "_")

\* int(s) for a string s: the integer, or ValueError
IntOfStr(s) ==
    LET u == Strip(s)
        signed == u # <<>> /\ u[1] \in {"+", "-"}
        body == IF signed THEN Tail(u) ELSE u
        n == Decimal(SelectSeq(body, IsDigit))
    IN IF ~IsDigitRun(body) THEN Raise("ValueError")
       ELSE PyInt(IF signed /\ u[1] = "-" THEN 0 - n ELSE n)

\* int(v) for a Python value
IntOf(v) ==
    CASE v.t = "str" -> IntOfStr(v.s)
      [] v.t = "int" -> v
      [] OTHER -> Raise("TypeError")

\* lines 166-180: both sides are integers
CompareInt(op, lhs, rhs) ==
    CASE op \in {<<"=">>, <<"=", "=">>} -> Bool(lhs = rhs)
      [] op = <<">", "=">> -> Bool(lhs >= rhs)
      [] op = <<"<", "=">> -> Bool(lhs <= rhs)
      [] op = <<">">> -> Bool(lhs > rhs)
      [] op = <<"<">> -> Bool(lhs < rhs)
      [] op = <<"!", "=">> -> Bool(lhs # rhs)
      [] OTHER -> Bool(FALSE)

\* lhs == rhs on Python values: an int and a str are never equal
PyEq(a, b) ==
    /\ a.t = b.t
    /\ \/ a.t = "str" /\ a.s = b.s
       \/ a.t = "int" /\ a.n = b.n

\* lines 182-188: one side raised ValueError; lhs is an int if it had parsed
CompareFallback(op, lhs, rhs) ==
    CASE op \in {<<"=">>, <<"=", "=">>} -> Bool(PyEq(lhs, rhs))
      [] op = <<"!", "=">> -> Bool(~PyEq(lhs, rhs))
      [] OTHER -> Bool(FALSE)

\* lines 157-188: the body of the clause loop for one item of the selector;
\* every path through it returns or raises
ClauseVerdict(h, id, clause) ==
    LET path == clause[1]
        op == clause[2]
        rhs == Str(clause[3])
        lhs == IF S_query \in DOMAIN h[id] THEN Raise("TypeError")   \* a str is not callable
               ELSE query(h, id, Str(path), None)
        li == IntOf(lhs)
        ri == IntOf(rhs)
    IN IF IsRaise(lhs) THEN lhs
       ELSE IF lhs.t = "none" THEN Bool(FALSE)
       ELSE IF IsRaise(li) /\ li.e # "ValueError" THEN li
       ELSE IF IsRaise(li) THEN CompareFallback(op, lhs, rhs)
       ELSE IF IsRaise(ri) THEN CompareFallback(op, li, rhs)
       ELSE CompareInt(op, li.n, ri.n)

\* ClauseLoop as a conjunction: a clause that holds lets the loop go on
RECURSIVE ClauseLoopAll(_, _, _)
ClauseLoopAll(h, id, clauses) ==
    LET v == ClauseVerdict(h, id, clauses[1])
    IN IF Len(clauses) = 1 \/ IsRaise(v) \/ ~v.b THEN v
       ELSE ClauseLoopAll(h, id, Tail(clauses))

\* lines 156-188: the loop over selector.items() ends in its first iteration
ClauseLoop(h, id, clauses) == ClauseVerdict(h, id, clauses[1])

\* lines 149-188
predicate(h, id, sel) ==
    IF h[id][S_resource_type].s # sel.type THEN Bool(FALSE)
    ELSE IF sel.attrs = <<>> THEN Bool(TRUE)
    ELSE ClauseLoop(h, id, sel.attrs)

\* line 190: the list comprehension over self.resources; the first predicate
\* that raises ends it
Comprehension(h, ids, sel) ==
    LET raised(k) == IsRaise(predicate(h, ids[k], sel))
        holds(id) == predicate(h, id, sel).b
    IN IF \E k \in DOMAIN ids : raised(k)
       THEN predicate(h, ids[CHOOSE k \in DOMAIN ids :
                                 raised(k) /\ \A j \in 1..(k - 1) : ~raised(j)], sel)
       ELSE List(SelectSeq(ids, holds))

\* lines 190-195 for compiled selectors
Filtered(h, t, sel) ==
    IF IsRaise(Comprehension(h, t[S_resources].l, sel))
    THEN Comprehension(h, t[S_resources].l, sel)
    ELSE IF \E k \in DOMAIN t[S_resources].l :
                predicate(h, t[S_resources].l[k], sel).b
    THEN Comprehension(h, t[S_resources].l, sel)
    ELSE None

\* lines 145-195 for a selector expression: the local selectors after line
\* 147 and what the call returns or raises
select(h, t, string) ==
    CHOOSE r \in {[selectors |-> sel,
                   ret |-> IF IsRaise(sel) THEN sel ELSE Filtered(h, t, sel)] :
                      sel \in {SelectorParse(string)}} : TRUE

----------------------------------------------------------------------------
(* The lines re.findall recognises in a file (line 110) *)

HeaderLine(resource_type, pairs) ==
    [resource_type |-> resource_type, pairs |-> pairs, key |-> <<>>, value |-> <<>>]

BodyLine(key, value) ==
    [resource_type |-> <<>>, pairs |-> <<>>, key |-> key, value |-> value]

HeaderLines ==
    {HeaderLine(k, <<>>) : k \in {S_node, S_ext_resource, S_sub_resource,
                                  S_connection, S_gd_scene, S_foo}}
    \cup {HeaderLine(S_node, <<<<S_name, <<QUOTE, "H", "p", QUOTE>>>>>>),
          HeaderLine(S_node, <<<<S_entries, <<"5">>>>>>)}

BodyValues ==
    {<<"5", "0">>, <<"1", "0", "%">>, <<"+", "1", "0", "%">>, <<QUOTE, "7", QUOTE>>,
     <<QUOTE, "+", "1", QUOTE>>, <<QUOTE, "x", NEWLINE, "y", QUOTE>>, <<QUOTE>>}

BodyLines == {BodyLine(<<"a">>, v) : v \in BodyValues}

LineSet == HeaderLines \cup BodyLines

RECURSIVE SeqsUpTo(_, _)
SeqsUpTo(S, n) ==
    IF n = 0 THEN {<<>>}
    ELSE LET shorter == SeqsUpTo(S, n - 1)
         IN shorter \cup {Append(s, x) : s \in {q \in shorter : Len(q) = n - 1}, x \in S}

Files == SeqsUpTo(LineSet, MaxLines)

----------------------------------------------------------------------------
(* The parser as a state machine: one step per element of lines *)

NoCall == [op |-> "none"]

Init ==
    /\ lines \in Files
    /\ pc = "parse"
    /\ i = 0
    /\ heap = <<>>
    /\ tscn = NewTSCN
    /\ rsc = 0
    /\ err = "none"
    /\ call = NoCall
    /\ selectors = None
    /\ ret = None

Current == ParseState(pc, heap, tscn, rsc, err)

Take(st) ==
    /\ i' = i + 1
    /\ pc' = st.pc
    /\ heap' = st.heap
    /\ tscn' = st.tscn
    /\ rsc' = st.rsc
    /\ err' = st.err
    /\ UNCHANGED <<lines, call, selectors, ret>>

ParseHeader ==
    /\ pc = "parse"
    /\ i < Len(lines)
    /\ IsHeader(lines[i + 1])
    /\ Take(HeaderStep(Current, lines[i + 1]))

ParseBody ==
    /\ pc = "parse"
    /\ i < Len(lines)
    /\ ~IsHeader(lines[i + 1])
    /\ Take(BodyStep(Current, lines[i + 1]))

ParseEnd ==
    /\ pc = "parse"
    /\ i = Len(lines)
    /\ pc' = "done"
    /\ UNCHANGED <<lines, i, heap, tscn, rsc, err, call, selectors, ret>>

Next == ParseHeader \/ ParseBody \/ ParseEnd

Spec == Init /\ [][Next]_vars

----------------------------------------------------------------------------
(* Properties of the parser *)

\* the kinds parse_file has a place for: the four lists and the scene
Recognised == Range(types) \cup {S_gd_scene}

\* the kind of the resource with identity id
KindOf(id) == heap[id][S_resource_type].s

\* how many of the first n lines are header lines
HeadersUpTo(n) == Cardinality({j \in 1..n : IsHeader(lines[j])})

\* the position in lines of the k-th header line
HeaderPos(k) == CHOOSE j \in DOMAIN lines : IsHeader(lines[j]) /\ HeadersUpTo(j) = k

\* C3: a header line of a kind other than node, ext_resource, sub_resource,
\* connection and gd_scene does not end the parse with an error, and its
\* Resource stands in the flat list at the position of its header line
C3_UnanticipatedKindKept ==
    \A j \in 1..i :
        (IsHeader(lines[j]) /\ lines[j].resource_type \notin Recognised) =>
            /\ ~(pc = "error" /\ j = i)
            /\ Len(tscn[S_resources].l) >= HeadersUpTo(j)
            /\ KindOf(tscn[S_resources].l[HeadersUpTo(j)]) = lines[j].resource_type

C7_NoHeaderEmptyDocument ==
    (\A j \in DOMAIN lines : ~IsHeader(lines[j])) =>
        /\ pc # "error"
        /\ pc = "done" => (heap = <<>> /\ tscn = NewTSCN)

\* the raw value without its surrounding double quotes
C8_Stripped(raw) ==
    IF Len(raw) >= 2 /\ raw[1] = QUOTE /\ raw[Len(raw)] = QUOTE
    THEN SubSeq(raw, 2, Len(raw) - 1)
    ELSE raw

\* the text with "\" "n" for each newline
RECURSIVE C8_Escaped(_)
C8_Escaped(text) ==
    IF text = <<>> THEN <<>>
    ELSE LET n == Len(text)
         IN C8_Escaped(SubSeq(text, 1, n - 1))
            \o (IF text[n] = NEWLINE THEN <<BACKSLASH, "n">> ELSE <<text[n]>>)

\* C8: the value stored for a body line is its raw value with the surrounding
\* quotes stripped and the newlines escaped, as ="<text>" when that text
\* begins with "+" and unchanged when it does not; +10% is stored as ="+10%"
\* and 10% as 10%
C8_StoredValue ==
    (pc \in {"parse", "done"} /\ i >= 1 /\ ~IsHeader(lines[i])) =>
        LET raw == lines[i].value
            text == C8_Escaped(C8_Stripped(raw))
            stored == heap[rsc][S_entries].d[lines[i].key].s
        IN /\ text # <<>> /\ text[1] = "+" =>
                stored = <<"=", QUOTE>> \o text \o <<QUOTE>>
           /\ ~(text # <<>> /\ text[1] = "+") => stored = text
           /\ raw = <<"+", "1", "0", "%">> =>
                stored = <<"=", QUOTE, "+", "1", "0", "%", QUOTE>>
           /\ raw = <<"1", "0", "%">> => stored = raw

\* a quoted value beginning with "+" has been stored
C8_Witness ==
    /\ pc = "done"
    /\ i >= 1
    /\ ~IsHeader(lines[i])
    /\ lines[i].value = <<QUOTE, "+", "1", QUOTE>>
    /\ heap[rsc][S_entries].d[lines[i].key] = Str(<<"=", QUOTE, "+", "1", QUOTE>>)

\* the body lines taken so far that follow the header line of resource id and
\* precede the next header line
Block(id) ==
    {j \in 1..i :
        /\ ~IsHeader(lines[j])
        /\ HeaderPos(id) < j
        /\ \A k \in (HeaderPos(id) + 1)..j : ~IsHeader(lines[k])}

\* C9: the entries of each Resource are those of the body lines between its
\* header line and the next one, and of no other line; they are empty when
\* the header line opens the Resource
C9_EntriesOfOpenResource ==
    \A id \in DOMAIN heap :
        LET e == heap[id][S_entries]
        IN /\ e.t = "dict"
           /\ DOMAIN e.d = {lines[j].key : j \in Block(id)}
           /\ \A j \in Block(id) :
                (\A k \in Block(id) : k > j => lines[k].key # lines[j].key) =>
                    e.d[lines[j].key] = Str(EntryValue(lines[j].value))

----------------------------------------------------------------------------
(* Calls on a built document: select(expression) and query(path, default) *)

P_a == <<"a">>
P_zz == <<"z", "z">>
V_50 == <<"5", "0">>
V_x == <<"x">>
V_Hp == <<"H", "p">>

SelLineSet ==
    {HeaderLine(S_node, <<<<S_name, <<QUOTE, "H", "p", QUOTE>>>>>>),
     HeaderLine(S_node, <<>>),
     HeaderLine(S_gd_scene, <<>>),
     BodyLine(P_a, V_50),
     BodyLine(P_a, <<QUOTE, "7", QUOTE>>),
     BodyLine(P_a, <<"+", "1">>)}

\* the files whose parse builds a document
SelFiles == {f \in SeqsUpTo(SelLineSet, MaxSelLines) : ParseFile(f).pc = "done"}

SelPaths ==
    {P_a, S_name, <<"a", "/", "0">>, <<"a", "/", "9">>, P_zz, S_entries, <<"0">>}

SelOps ==
    {<<"=">>, <<"=", "=">>, <<"!", "=">>, <<"<">>, <<"<", "=">>, <<">">>,
     <<">", "=">>, <<"=", ">">>}

FirstClauses ==
    {<<p, <<"=">>, V_50>> : p \in SelPaths}
    \cup {<<P_a, op, V_50>> : op \in SelOps}
    \cup {<<S_name, <<"=">>, V_Hp>>, <<P_a, <<"=">>, V_x>>, <<P_a, <<"!", "=">>, V_x>>,
          <<P_a, <<"<">>, V_x>>}

TailClauses == {<<S_name, <<"=">>, V_Hp>>, <<P_a, <<"<">>, <<"9">>>>}

ClauseSeqs ==
    {<<>>} \cup {<<c>> \o rest : c \in FirstClauses,
                                rest \in SeqsUpTo(TailClauses, MaxClauses - 1)}

\* the text of an expression: the kind, then the clauses with sep between them
RECURSIVE RenderClauses(_, _)
RenderClauses(cs, sep) ==
    IF cs = <<>> THEN <<>>
    ELSE <<"[">> \o cs[1][1] \o cs[1][2] \o cs[1][3] \o <<"]">>
         \o (IF Len(cs) > 1 THEN sep ELSE <<>>) \o RenderClauses(Tail(cs), sep)

Render(kind, cs, sep) == kind \o RenderClauses(cs, sep)

Expressions ==
    {Render(k, cs, sep) : k \in {S_node, S_gd_scene}, cs \in ClauseSeqs,
                          sep \in {<<>>, <<NEWLINE>>}}

QueryPaths ==
    {Str(p) : p \in SelPaths \cup
        {<<>>, <<"a", "/", "x">>, <<"n", "a", "m", "e", "/", "0">>,
         <<"z", "z", "/", "0">>, <<"e", "n", "t", "r", "i", "e", "s", "/", "a">>,
         <<"e", "n", "t", "r", "i", "e", "s", "/", "z", "z">>,
         <<"q", "u", "e", "r", "y", "/", "0">>}}
    \cup {List(<<>>), List(<<P_a>>), List(<<P_a, <<"0">>>>), PyInt(5)}

Defaults == {None, Str(<<"D">>)}

InitSel ==
    /\ lines \in SelFiles
    /\ pc = "done"
    /\ i = Len(lines)
    /\ heap = ParseFile(lines).heap
    /\ tscn = ParseFile(lines).tscn
    /\ rsc = ParseFile(lines).rsc
    /\ err = "none"
    /\ call = NoCall
    /\ selectors = None
    /\ ret = None

\* the caller is single-threaded: one call at a time
DoSelect ==
    /\ pc = "done"
    /\ call = NoCall
    /\ \E string \in Expressions :
        \E r \in {select(heap, tscn, string)} :
            /\ call' = [op |-> "select", string |-> string]
            /\ selectors' = r.selectors
            /\ ret' = r.ret
    /\ UNCHANGED <<pc, lines, i, heap, tscn, rsc, err>>

DoQuery ==
    /\ pc = "done"
    /\ call = NoCall
    /\ \E id \in 1..Len(heap), path \in QueryPaths, default \in Defaults :
        /\ call' = [op |-> "query", id |-> id, path |-> path, default |-> default]
        /\ ret' = query(heap, id, path, default)
    /\ UNCHANGED <<pc, lines, i, heap, tscn, rsc, err, selectors>>

\* the call has returned or raised and its locals are gone; the document is as before
Return ==
    /\ call # NoCall
    /\ call' = NoCall
    /\ selectors' = None
    /\ ret' = None
    /\ UNCHANGED <<pc, lines, i, heap, tscn, rsc, err>>

NextSel == DoSelect \/ DoQuery \/ Return

SpecSel == InitSel /\ [][NextSel]_vars

----------------------------------------------------------------------------
(* Properties of select, query and Selector.parse *)

\* C1: select returns the Resources of the flat list for which the predicate
\* holds, each once and in file order, none of another kind than the
\* selector's, and None when there is none
C1_SelectFilters ==
    (call.op = "select" /\ selectors.t = "selector") =>
        LET holds(id) == predicate(heap, id, selectors) = Bool(TRUE)
            matching == SelectSeq(tscn[S_resources].l, holds)
        IN /\ ret = IF matching = <<>> THEN None ELSE List(matching)
           /\ ret.t = "list" =>
                \A k \in DOMAIN ret.l : KindOf(ret.l[k]) = selectors.type

\* the first segment of a path given as a str or as a list of str
C2_FirstSegment(path) ==
    IF path.t = "str" THEN Split(path.s)[1] ELSE path.l[1]

\* C2: query never raises, and returns the default when the first segment of
\* the path names neither an attribute nor an entry key
C2_QueryNeverRaises ==
    call.op = "query" =>
        /\ ret.t # "raise"
        /\ (/\ call.path.t \in {"str", "list"}
            /\ (call.path.t = "list" => call.path.l # <<>>)
            /\ C2_FirstSegment(call.path) \notin
                 DOMAIN heap[call.id] \cup ResourceClassAttrs
                 \cup DOMAIN heap[call.id][S_entries].d)
           => ret = call.default

SevenOps ==
    {<<"=">>, <<"=", "=">>, <<"!", "=">>, <<"<">>, <<"<", "=">>, <<">">>, <<">", "=">>}

\* the verdict C5 gives a clause on the Resource id, for the operators and
\* operands it speaks of
C5_Claimed(id, clause) ==
    LET op == clause[2]
        q == query(heap, id, Str(clause[1]), None)
        l == IF q.t = "str" THEN IntOfStr(q.s) ELSE Raise("ValueError")
        r == IntOfStr(clause[3])
        same == q.t = "str" /\ q.s = clause[3]
    IN IF q.t \in {"none", "raise"} THEN Bool(FALSE)
       ELSE IF ~IsRaise(l) /\ ~IsRaise(r)
       THEN CASE op \in {<<"=">>, <<"=", "=">>} -> Bool(l.n = r.n)
              [] op = <<"!", "=">> -> Bool(l.n # r.n)
              [] op = <<"<">> -> Bool(l.n < r.n)
              [] op = <<"<", "=">> -> Bool(l.n <= r.n)
              [] op = <<">">> -> Bool(l.n > r.n)
              [] op = <<">", "=">> -> Bool(l.n >= r.n)
       ELSE IF op \in {<<"=">>, <<"=", "=">>} THEN Bool(same)
       ELSE IF op = <<"!", "=">> THEN Bool(~same)
       ELSE Bool(FALSE)

\* C5: on a Resource of the selector's kind a single clause rejects when the
\* path is unresolvable, compares numerically when both sides parse as
\* integers, and else compares the strings for =, == and != and rejects for
\* any other operator
C5_SingleClauseVerdict ==
    (/\ call.op = "select"
     /\ selectors.t = "selector"
     /\ Len(selectors.attrs) = 1) =>
        LET clause == selectors.attrs[1]
            numeric(id) == LET q == query(heap, id, Str(clause[1]), None)
                           IN q.t = "str" /\ ~IsRaise(IntOfStr(q.s))
                              /\ ~IsRaise(IntOfStr(clause[3]))
        IN \A id \in DOMAIN heap :
            (KindOf(id) = selectors.type
             /\ (numeric(id) => clause[2] \in SevenOps)) =>
                predicate(heap, id, selectors) = C5_Claimed(id, clause)

NoForbiddenChar(text) ==
    \A k \in DOMAIN text : text[k] # "]" /\ ~IsSpace(text[k]) /\ ~IsOpChar(text[k])

\* C6: an expression of a kind and n >= 0 directly concatenated clauses with
\* distinct paths compiles to that kind and exactly those n clauses, no
\* compiled path or value holding a closing bracket, a space or an operator
\* character
C6_CompiledClauses ==
    call.op = "select" =>
        \A k \in {S_node, S_gd_scene}, cs \in ClauseSeqs :
            (/\ call.string = Render(k, cs, <<>>)
             /\ \A m, n \in DOMAIN cs : m # n => cs[m][1] # cs[n][1]) =>
                /\ selectors = [t |-> "selector", type |-> k, attrs |-> cs]
                /\ \A n \in DOMAIN selectors.attrs :
                     /\ NoForbiddenChar(selectors.attrs[n][1])
                     /\ NoForbiddenChar(selectors.attrs[n][3])

\* C10: with two or more clauses the predicate gives a Resource of the
\* selector's kind the verdict of the first clause alone, and select returns
\* what it returns for the first clause alone, whatever the other clauses are
C10_FirstClauseWins ==
    (/\ call.op = "select"
     /\ selectors.t = "selector"
     /\ Len(selectors.attrs) >= 2) =>
        LET first == selectors.attrs[1]
            with(rest) == [selectors EXCEPT !.attrs = <<first>> \o rest]
        IN /\ \A id \in DOMAIN heap :
                KindOf(id) = selectors.type =>
                    predicate(heap, id, selectors) = predicate(heap, id, with(<<>>))
           /\ ret = Filtered(heap, tscn, with(<<>>))
           /\ \A rest \in SeqsUpTo(TailClauses, MaxClauses - 1) :
                rest # <<>> => ret = Filtered(heap, tscn, with(rest))

\* select has returned a Resource that the second of two clauses rejects
C10_Witness ==
    /\ call.op = "select"
    /\ selectors.t = "selector"
    /\ Len(selectors.attrs) >= 2
    /\ ret.t = "list"
    /\ \E k \in DOMAIN ret.l :
         ClauseVerdict(heap, ret.l[k], selectors.attrs[2]) = Bool(FALSE)

====
